---- MODULE Spec2Model ----
(***************************************************************************)
(* A model of the WHOIS lookup service of src/main.py: the module-level    *)
(* cache, the whois_lookup coroutine with its remote retry loop, the       *)
(* grabio fallback and the two result builders.                            *)
(*                                                                         *)
(* Python strings the code manipulates are sequences of one-character      *)
(* strings; strings it only passes around (result, message) are TLA+       *)
(* strings.  Python values of varying type are tagged records.             *)
(* Time is counted in hours.                                               *)
(***************************************************************************)
EXTENDS Integers, Sequences, FiniteSets, TLC

VARIABLES cache, clock, started, pc, domain, now, attempt, ret, alias,
          hit, last, localOutcome, remoteCalls, localCalls

vars == <<cache, clock, started, pc, domain, now, attempt, ret, alias,
          hit, last, localOutcome, remoteCalls, localCalls>>

(***************************************************************************)
(* Bounds of the model.                                                    *)
(***************************************************************************)
MaxTime == 2

MaxLookups == 3

Procs == {"r1", "r2"}

(***************************************************************************)
(* Program constants.                                                      *)
(***************************************************************************)
CACHE_TTL == 1

max_attempts == 3

(***************************************************************************)
(* str.strip() and str.lower()                                             *)
(***************************************************************************)
Whitespace == {" ", "\t", "\n", "\r"}

UpperChars == <<"A","B","C","D","E","F","G","H","I","J","K","L","M",
                "N","O","P","Q","R","S","T","U","V","W","X","Y","Z">>

LowerChars == <<"a","b","c","d","e","f","g","h","i","j","k","l","m",
                "n","o","p","q","r","s","t","u","v","w","x","y","z">>

LowerChar(c) ==
    IF \E i \in 1..Len(UpperChars) : UpperChars[i] = c
    THEN LowerChars[CHOOSE i \in 1..Len(UpperChars) : UpperChars[i] = c]
    ELSE c

Lower(s) == [i \in 1..Len(s) |-> LowerChar(s[i])]

RECURSIVE LStrip(_)
LStrip(s) == IF s # <<>> /\ Head(s) \in Whitespace THEN LStrip(Tail(s)) ELSE s

RECURSIVE RStrip(_)
RStrip(s) ==
    IF s # <<>> /\ s[Len(s)] \in Whitespace
    THEN RStrip(SubSeq(s, 1, Len(s) - 1))
    ELSE s

Strip(s) == RStrip(LStrip(s))

\* NormalizeDomain that keeps the case
NormalizeDomainCased(raw) == Strip(raw)

\* domain.strip().lower()
NormalizeDomain(raw) == Lower(Strip(raw))

\* sub in s
Contains(s, sub) ==
    \E i \in 1..(Len(s) - Len(sub) + 1) : SubSeq(s, i, i + Len(sub) - 1) = sub

(***************************************************************************)
(* String literals of the code.                                            *)
(***************************************************************************)
NO_INFORMATION == <<"N","o"," ","i","n","f","o","r","m","a","t","i","o","n">>

WHOIS_API_TYPE == <<"w","h","o","i","s","_","a","p","i">>

LOCAL_TYPE == <<"l","o","c","a","l">>

CACHED == <<"c","a","c","h","e","d">>

COMMA_SPACE == <<",", " ">>

NEWLINE == <<"\n">>

RATE_LIMIT_MESSAGE == "Rate limit exceeded"

LOCAL_FAILED_PREFIX == "Local WHOIS lookup failed: "

(***************************************************************************)
(* Python values.                                                          *)
(***************************************************************************)
PyNone == [t |-> "none"]

PyStr(s) == [t |-> "str", v |-> s]

PyInt(n) == [t |-> "int", v |-> n]

PyBool(b) == [t |-> "bool", v |-> b]

PyList(l) == [t |-> "list", v |-> l]

PyDict(m) == [t |-> "dict", v |-> m]

\* bool(v)
Truthy(x) ==
    CASE x.t = "none" -> FALSE
      [] x.t = "str"  -> x.v # <<>>
      [] x.t = "int"  -> x.v # 0
      [] x.t = "bool" -> x.v
      [] x.t = "list" -> x.v # <<>>
      [] x.t = "dict" -> DOMAIN x.v # {}

\* d.get(k): None when the key is absent
DictGet(m, k) == IF k \in DOMAIN m THEN m[k] ELSE PyNone

\* d.get(k, default)
DictGetDefault(m, k, default) == IF k \in DOMAIN m THEN m[k] ELSE default

\* a or b
PyOr(a, b) == IF Truthy(a) THEN a ELSE b

\* The outcome of evaluating an expression: a value, or a raised exception.
Val(x) == [ok |-> TRUE, val |-> x]

Raise(e) == [ok |-> FALSE, exc |-> e]

RECURSIVE JoinSeq(_, _)
JoinSeq(sep, l) ==
    IF l = <<>> THEN <<>>
    ELSE IF Len(l) = 1 THEN l[1].v
    ELSE l[1].v \o sep \o JoinSeq(sep, Tail(l))

\* sep.join(l): TypeError unless every item is a str
Join(sep, l) ==
    IF \A i \in 1..Len(l) : l[i].t = "str"
    THEN Val(PyStr(JoinSeq(sep, l)))
    ELSE Raise("TypeError")

\* sep.join(ns.lower() for ns in l): AttributeError on an item without lower()
JoinLower(sep, l) ==
    IF \A i \in 1..Len(l) : l[i].t = "str"
    THEN Val(PyStr(JoinSeq(sep, [i \in 1..Len(l) |-> PyStr(Lower(l[i].v))])))
    ELSE Raise("AttributeError")

\* status: a list is joined with ", ", anything else is "status or sentinel"
FlattenStatus(status) ==
    IF status.t = "list"
    THEN Join(COMMA_SPACE, status.v)
    ELSE Val(PyOr(status, PyStr(NO_INFORMATION)))

\* name_servers: a list is lower-cased and joined with "\n", anything else
\* is "name_servers or sentinel"
FlattenNameServers(name_servers) ==
    IF name_servers.t = "list"
    THEN JoinLower(NEWLINE, name_servers.v)
    ELSE Val(PyOr(name_servers, PyStr(NO_INFORMATION)))

(***************************************************************************)
(* int(raw_remaining)                                                      *)
(***************************************************************************)
DigitChars == <<"0","1","2","3","4","5","6","7","8","9">>

IsDigit(c) == \E i \in 1..Len(DigitChars) : DigitChars[i] = c

DigitValue(c) == (CHOOSE i \in 1..Len(DigitChars) : DigitChars[i] = c) - 1

RECURSIVE DigitsValue(_)
DigitsValue(s) ==
    IF s = <<>> THEN 0
    ELSE 10 * DigitsValue(SubSeq(s, 1, Len(s) - 1)) + DigitValue(s[Len(s)])

\* int(s) for a str: surrounding whitespace and one sign are accepted,
\* anything that is not a run of digits is a ValueError
PyIntOfStr(s) ==
    LET body   == Strip(s)
        signed == body # <<>> /\ Head(body) \in {"+", "-"}
        digits == IF signed THEN Tail(body) ELSE body
    IN  IF digits # <<>> /\ \A i \in 1..Len(digits) : IsDigit(digits[i])
        THEN Val(PyInt(IF signed /\ Head(body) = "-"
                       THEN 0 - DigitsValue(digits)
                       ELSE DigitsValue(digits)))
        ELSE Raise("ValueError")

\* remaining_api_calls: the X-RateLimit-Remaining header as an int, None
\* when the header is missing or is no number
RemainingApiCalls(api_headers) ==
    LET raw_remaining == DictGet(api_headers, "X-RateLimit-Remaining")
    IN  IF raw_remaining = PyNone THEN PyNone
        ELSE IF PyIntOfStr(raw_remaining.v).ok
             THEN PyIntOfStr(raw_remaining.v).val
             ELSE PyNone

(***************************************************************************)
(* The result builders of whois_lookup.                                    *)
(***************************************************************************)
\* "Parse API result": the record built from a remote payload, or the
\* exception the parsing raises
ParseApiResult(dom, api_result, api_headers) ==
    IF api_result.t # "dict" THEN Raise("AttributeError")
    ELSE
    LET res == DictGetDefault(api_result.v, "result", PyDict(<<>>))
    IN  IF res.t # "dict" THEN Raise("AttributeError")
        ELSE
        LET status       == FlattenStatus(DictGet(res.v, "status"))
            name_servers == FlattenNameServers(DictGet(res.v, "name_servers"))
        IN  IF ~status.ok THEN status
            ELSE IF ~name_servers.ok THEN name_servers
            ELSE Val([domain              |-> dom,
                      creation_date       |-> PyOr(DictGet(res.v, "creation_date"),
                                                   PyStr(NO_INFORMATION)),
                      registrar           |-> PyOr(DictGet(res.v, "registrar"),
                                                   PyStr(NO_INFORMATION)),
                      status              |-> status.val,
                      name_servers        |-> name_servers.val,
                      expiration_date     |-> DictGet(res.v, "expiration_date"),
                      result              |-> "success",
                      lookup_type         |-> WHOIS_API_TYPE,
                      remaining_api_calls |-> RemainingApiCalls(api_headers)])

\* The record built from what grabio's whois_info() returned, or the
\* exception the building raises
LocalResult(dom, whois_data) ==
    IF whois_data.t # "dict" THEN Raise("AttributeError")
    ELSE
    LET status       == FlattenStatus(DictGet(whois_data.v, "status"))
        name_servers == FlattenNameServers(DictGet(whois_data.v, "name_servers"))
    IN  IF ~status.ok THEN status
        ELSE IF ~name_servers.ok THEN name_servers
        ELSE Val([domain              |-> dom,
                  creation_date       |-> DictGetDefault(whois_data.v, "creation_date",
                                                         PyStr(NO_INFORMATION)),
                  registrar           |-> DictGetDefault(whois_data.v, "registrar",
                                                         PyStr(NO_INFORMATION)),
                  status              |-> status.val,
                  name_servers        |-> name_servers.val,
                  expiration_date     |-> DictGet(whois_data.v, "expiration_date"),
                  result              |-> "success",
                  lookup_type         |-> LOCAL_TYPE,
                  remaining_api_calls |-> PyNone])

\* RateLimitResult with the message of another failure
RateLimitResultUnnamed(dom) ==
    [domain              |-> dom,
     result              |-> "error",
     message             |-> "Lookup failed",
     lookup_type         |-> WHOIS_API_TYPE,
     remaining_api_calls |-> PyInt(0)]

\* The record returned when the API answers 429
RateLimitResult(dom) ==
    [domain              |-> dom,
     result              |-> "error",
     message             |-> RATE_LIMIT_MESSAGE,
     lookup_type         |-> WHOIS_API_TYPE,
     remaining_api_calls |-> PyInt(0)]

\* LocalErrorResult with the lookup_type of the remote path
LocalErrorResultAsRemote(dom, text) ==
    [domain              |-> dom,
     result              |-> "error",
     message             |-> LOCAL_FAILED_PREFIX \o text,
     lookup_type         |-> WHOIS_API_TYPE,
     remaining_api_calls |-> PyNone]

\* The record returned when the grabio fallback raised; text is str(e)
LocalErrorResult(dom, text) ==
    [domain              |-> dom,
     result              |-> "error",
     message             |-> LOCAL_FAILED_PREFIX \o text,
     lookup_type         |-> LOCAL_TYPE,
     remaining_api_calls |-> PyNone]

\* CachedLookupType without the test for an earlier mark
CachedLookupTypeAgain(lookup_type) ==
    IF lookup_type # <<>> THEN lookup_type \o COMMA_SPACE \o CACHED ELSE CACHED

\* The lookup_type a cache hit leaves in the cached record
CachedLookupType(lookup_type) ==
    IF Contains(lookup_type, CACHED) THEN lookup_type
    ELSE IF lookup_type # <<>> THEN lookup_type \o COMMA_SPACE \o CACHED
    ELSE CACHED

\* The cached record after a cache hit
MarkCached(cached_result) ==
    [cached_result EXCEPT
        !.lookup_type = CachedLookupType(cached_result.lookup_type)]

(***************************************************************************)
(* The inputs the environment can supply.                                  *)
(***************************************************************************)
\* Request bodies: two spellings of one domain, and another domain
RawDomains == { <<"e","x">>, <<" ","E","x","\n">>, <<"i","o">> }

\* {"result": {...}} with list-valued status and name_servers
PayloadFull ==
    PyDict([result |-> PyDict(
        [creation_date   |-> PyStr(<<"9","5">>),
         registrar       |-> PyStr(<<"R","x">>),
         status          |-> PyList(<<PyStr(<<"o","k">>), PyStr(<<"u","p">>)>>),
         name_servers    |-> PyList(<<PyStr(<<"A",".","N","S">>)>>),
         expiration_date |-> PyStr(<<"2","6">>)])])

\* {"result": {}}
PayloadEmptyResult == PyDict([result |-> PyDict(<<>>)])

\* {}
PayloadEmpty == PyDict(<<>>)

\* ["x"]
PayloadList == PyList(<<PyStr(<<"x">>)>>)

\* {"result": null}
PayloadResultNull == PyDict([result |-> PyNone])

\* {"result": "error"}
PayloadResultStr == PyDict([result |-> PyStr(<<"e","r","r","o","r">>)])

\* {"result": {"status": [null]}}
PayloadBadStatus ==
    PyDict([result |-> PyDict([status |-> PyList(<<PyNone>>)])])

\* {"result": {"registered": false, "status": "free"}}
PayloadUnregistered ==
    PyDict([result |-> PyDict([registered |-> PyBool(FALSE),
                               status     |-> PyStr(<<"f","r","e","e">>)])])

\* {"result": {"status": "Ok", "name_servers": "A.NS"}}
PayloadScalars ==
    PyDict([result |-> PyDict([status       |-> PyStr(<<"O","k">>),
                               name_servers |-> PyStr(<<"A",".","N","S">>)])])

\* {"result": {"status": 7, "name_servers": {"a": null}}}
PayloadOddTypes ==
    PyDict([result |-> PyDict([status       |-> PyInt(7),
                               name_servers |-> PyDict([a |-> PyNone])])])

HeadersNumeric == [x \in {"X-RateLimit-Remaining"} |-> PyStr(<<"1","7">>)]

HeadersGarbled == [x \in {"X-RateLimit-Remaining"} |-> PyStr(<<"n","a">>)]

HeadersNone == <<>>

\* What a 2xx answer of the API can carry, (resp.json(), resp.headers):
\* every shape of payload and of header
ShapeResponses ==
    { [json_data |-> PayloadFull,        headers |-> HeadersNumeric],
      [json_data |-> PayloadFull,        headers |-> HeadersGarbled],
      [json_data |-> PayloadEmptyResult, headers |-> HeadersNone],
      [json_data |-> PayloadEmpty,       headers |-> HeadersNone],
      [json_data |-> PayloadList,        headers |-> HeadersNone],
      [json_data |-> PayloadResultNull,  headers |-> HeadersNone],
      [json_data |-> PayloadResultStr,   headers |-> HeadersNone],
      [json_data |-> PayloadBadStatus,   headers |-> HeadersNone],
      [json_data |-> PayloadUnregistered, headers |-> HeadersNone],
      [json_data |-> PayloadScalars,     headers |-> HeadersNone],
      [json_data |-> PayloadOddTypes,    headers |-> HeadersNone] }

\* The answers the concurrent requests get: one that parses, one that is
\* empty, one that does not parse
RemoteResponses ==
    { [json_data |-> PayloadFull,      headers |-> HeadersNumeric],
      [json_data |-> PayloadEmpty,     headers |-> HeadersNone],
      [json_data |-> PayloadResultStr, headers |-> HeadersNone] }

\* Failures of one remote attempt that the retry loop catches and counts:
\* an error status other than 404 and 429, and a transport error or timeout
RetryableErrors == {"http_error", "request_error"}

\* What grabio's whois_info() can return
LocalFull ==
    PyDict([creation_date   |-> PyStr(<<"9","5">>),
            registrar       |-> PyStr(<<"R","x">>),
            status          |-> PyList(<<PyStr(<<"o","k">>)>>),
            name_servers    |-> PyList(<<PyStr(<<"B",".","N","S">>)>>),
            expiration_date |-> PyNone])

LocalBadStatus == PyDict([status |-> PyList(<<PyNone>>)])

LocalScalars ==
    PyDict([status       |-> PyStr(<<"O","k">>),
            name_servers |-> PyStr(<<"B",".","N","S">>)])

LocalOddTypes ==
    PyDict([status       |-> PyInt(7),
            name_servers |-> PyDict([a |-> PyNone])])

\* Every shape of what whois_info() can return
ShapeLocalReturns ==
    {LocalFull, LocalBadStatus, LocalScalars, LocalOddTypes, PyDict(<<>>), PyNone}

LocalReturns == {LocalFull, LocalBadStatus}

\* str(e) of what grabio can raise
LocalCauses == {"timed out"}

(***************************************************************************)
(* State.                                                                  *)
(*   cache        the module-level dict: normalized domain ->              *)
(*                [rec, expiry]                                            *)
(*   clock        datetime.utcnow()                                        *)
(*   pc           where each request is: "idle", "await_remote" (inside    *)
(*                await client.get), "local" (inside the grabio call,      *)
(*                which does not yield the event loop), "closing" (a       *)
(*                return inside "async with", awaiting the client's        *)
(*                close), "done" (response sent), "raised" (the handler    *)
(*                ended with an exception)                                 *)
(*   domain, now, attempt   the locals of whois_lookup                     *)
(*   ret          the record the request returns (NoResponse before)       *)
(*   alias        the dict the request returns is the dict the cache holds *)
(*                for its domain                                           *)
(*   hit, last, localOutcome, remoteCalls, localCalls                      *)
(*                what the request has done so far: served from the cache, *)
(*                the answer to its last remote attempt, the outcome of    *)
(*                the grabio call, the calls of fetch_whois_api and of     *)
(*                whois_info it has made                                   *)
(*   started      the number of requests that have arrived                 *)
(***************************************************************************)
NoResponse == [result |-> "none"]

Init ==
    /\ cache = <<>>
    /\ clock = 0
    /\ started = 0
    /\ pc = [p \in Procs |-> "idle"]
    /\ domain = [p \in Procs |-> <<>>]
    /\ now = [p \in Procs |-> 0]
    /\ attempt = [p \in Procs |-> 0]
    /\ ret = [p \in Procs |-> NoResponse]
    /\ alias = [p \in Procs |-> FALSE]
    /\ hit = [p \in Procs |-> FALSE]
    /\ last = [p \in Procs |-> "none"]
    /\ localOutcome = [p \in Procs |-> "none"]
    /\ remoteCalls = [p \in Procs |-> 0]
    /\ localCalls = [p \in Procs |-> 0]

\* The event loop runs one coroutine at a time and grabio's whois_info() is
\* a plain call: while a request is inside it no other request takes a step.
LoopFree(p) == \A q \in Procs \ {p} : pc[q] # "local"

\* A request can arrive on a connection that has no request in progress
CanStart(p) ==
    /\ pc[p] \in {"idle", "done", "raised"}
    /\ LoopFree(p)
    /\ started < MaxLookups

\* IsLive with the comparison turned round
IsLiveInverted(entry, t) == entry.expiry < t

\* IsLive that still takes an entry at its expiry
IsLiveAtExpiry(entry, t) == entry.expiry >= t

\* expiry > now
IsLive(entry, t) == entry.expiry > t

\* CachePut that leaves an entry that is there alone
CachePutIfAbsent(c, dom, result, t) ==
    [k \in DOMAIN c \cup {dom} |->
        IF k \in DOMAIN c THEN c[k] ELSE [rec |-> result, expiry |-> t + CACHE_TTL]]

\* CachePut that counts the TTL from the time of the write
CachePutAtWrite(c, dom, result, t) ==
    [k \in DOMAIN c \cup {dom} |->
        IF k = dom THEN [rec |-> result, expiry |-> clock + CACHE_TTL] ELSE c[k]]

\* CachePut that stores nothing
CachePutDropped(c, dom, result, t) == c

\* cache[domain] = (result, now + CACHE_TTL)
CachePut(c, dom, result, t) ==
    [k \in DOMAIN c \cup {dom} |->
        IF k = dom THEN [rec |-> result, expiry |-> t + CACHE_TTL] ELSE c[k]]

\* CachePop that empties the cache
CachePopAll(c, dom) == <<>>

\* cache.pop(domain)
CachePop(c, dom) == [k \in DOMAIN c \ {dom} |-> c[k]]

\* The aliases left after request p stored a new dict under dom
AliasAfterPut(p, dom) ==
    [q \in Procs |-> IF q = p THEN TRUE
                     ELSE IF domain[q] = dom THEN FALSE ELSE alias[q]]

\* The aliases left after the entry of dom was removed
AliasAfterPop(dom) ==
    [q \in Procs |-> IF domain[q] = dom THEN FALSE ELSE alias[q]]

\* A request begins: it has done nothing so far
Begin(p, dom) ==
    /\ started' = started + 1
    /\ domain' = [domain EXCEPT ![p] = dom]
    /\ last' = [last EXCEPT ![p] = "none"]
    /\ localOutcome' = [localOutcome EXCEPT ![p] = "none"]
    /\ localCalls' = [localCalls EXCEPT ![p] = 0]

\* A request that finds a live entry: it marks the cached dict and returns it
CacheHit(p, raw) ==
    LET dom == NormalizeDomain(raw) IN
    /\ CanStart(p)
    /\ dom \in DOMAIN cache
    /\ IsLive(cache[dom], clock)
    /\ Begin(p, dom)
    /\ UNCHANGED <<now, attempt>>
    /\ LET cached_result == MarkCached(cache[dom].rec) IN
        /\ cache' = [cache EXCEPT ![dom].rec = cached_result]
        /\ ret' = [q \in Procs |->
                      IF q = p \/ (pc[q] = "closing" /\ alias[q] /\ domain[q] = dom)
                      THEN cached_result ELSE ret[q]]
    /\ alias' = [alias EXCEPT ![p] = TRUE]
    /\ hit' = [hit EXCEPT ![p] = TRUE]
    /\ remoteCalls' = [remoteCalls EXCEPT ![p] = 0]
    /\ pc' = [pc EXCEPT ![p] = "done"]
    /\ UNCHANGED clock

\* A request that finds an expired entry: it removes it and makes the first
\* remote attempt
CacheExpired(p, raw) ==
    LET dom == NormalizeDomain(raw) IN
    /\ CanStart(p)
    /\ dom \in DOMAIN cache
    /\ ~IsLive(cache[dom], clock)
    /\ Begin(p, dom)
    /\ now' = [now EXCEPT ![p] = clock]
    /\ attempt' = [attempt EXCEPT ![p] = 0]
    /\ cache' = CachePop(cache, dom)
    /\ alias' = [AliasAfterPop(dom) EXCEPT ![p] = FALSE]
    /\ hit' = [hit EXCEPT ![p] = FALSE]
    /\ ret' = [ret EXCEPT ![p] = NoResponse]
    /\ remoteCalls' = [remoteCalls EXCEPT ![p] = 1]
    /\ pc' = [pc EXCEPT ![p] = "await_remote"]
    /\ UNCHANGED clock

\* A request that finds no entry: it makes the first remote attempt
CacheMiss(p, raw) ==
    LET dom == NormalizeDomain(raw) IN
    /\ CanStart(p)
    /\ dom \notin DOMAIN cache
    /\ Begin(p, dom)
    /\ now' = [now EXCEPT ![p] = clock]
    /\ attempt' = [attempt EXCEPT ![p] = 0]
    /\ alias' = [alias EXCEPT ![p] = FALSE]
    /\ hit' = [hit EXCEPT ![p] = FALSE]
    /\ ret' = [ret EXCEPT ![p] = NoResponse]
    /\ remoteCalls' = [remoteCalls EXCEPT ![p] = 1]
    /\ pc' = [pc EXCEPT ![p] = "await_remote"]
    /\ UNCHANGED <<cache, clock>>

\* The locals now and attempt are read for the last time
DropLocals(p) ==
    /\ now' = [now EXCEPT ![p] = 0]
    /\ attempt' = [attempt EXCEPT ![p] = 0]

\* The payload says that the domain is not registered: its "result" is an
\* empty mapping, or a mapping whose "registered" is false
IsUnregistered(json_data) ==
    /\ json_data.t = "dict"
    /\ "result" \in DOMAIN json_data.v
    /\ json_data.v.result.t = "dict"
    /\ \/ DOMAIN json_data.v.result.v = {}
       \/ /\ "registered" \in DOMAIN json_data.v.result.v
          /\ json_data.v.result.v.registered = PyBool(FALSE)

\* The payload names a registration: a mapping whose "result" is a
\* non-empty mapping, with status and name_servers a str, a list of str or
\* missing
IsRegistration(json_data) ==
    /\ json_data.t = "dict"
    /\ "result" \in DOMAIN json_data.v
    /\ json_data.v.result.t = "dict"
    /\ DOMAIN json_data.v.result.v # {}
    /\ ~IsUnregistered(json_data)
    /\ \A k \in {"status", "name_servers"} \cap DOMAIN json_data.v.result.v :
          LET x == json_data.v.result.v[k] IN
          \/ x.t = "str"
          \/ x.t = "list" /\ \A i \in 1..Len(x.v) : x.v[i].t = "str"

\* What a 2xx answer carries, told by its payload alone: a registration
\* ("success"), that there is none ("success_unregistered"), nothing at all
\* ("success_empty"), or anything else
ResponseKind(json_data) ==
    IF IsRegistration(json_data) THEN "success"
    ELSE IF IsUnregistered(json_data) THEN "success_unregistered"
    ELSE IF json_data \in {PyDict(<<>>), PyList(<<>>), PyStr(<<>>), PyInt(0), PyNone}
         THEN "success_empty"
         ELSE "success_other"

\* NotApiResult with the test turned round
NotApiResultInverted(api_result) == Truthy(api_result)

\* not api_result
NotApiResult(api_result) == ~Truthy(api_result)

\* The fallback begins: the request enters grabio's whois_info()
EnterLocal(p) ==
    /\ localCalls' = [localCalls EXCEPT ![p] = localCalls[p] + 1]
    /\ attempt' = [attempt EXCEPT ![p] = 0]
    /\ pc' = [pc EXCEPT ![p] = "local"]
    /\ UNCHANGED now

\* The API answers with a 2xx status and a JSON body: the loop breaks; an
\* empty payload starts the fallback, any other is parsed, and the record
\* is cached and returned unless the parsing raises
RemoteSuccess(p, resp) ==
    /\ pc[p] = "await_remote"
    /\ LoopFree(p)
    /\ last' = [last EXCEPT ![p] = ResponseKind(resp.json_data)]
    /\ IF NotApiResult(resp.json_data)
       THEN /\ EnterLocal(p)
            /\ UNCHANGED <<cache, ret, alias>>
       ELSE LET parsed == ParseApiResult(domain[p], resp.json_data, resp.headers) IN
            /\ DropLocals(p)
            /\ UNCHANGED localCalls
            /\ IF parsed.ok
               THEN /\ cache' = CachePut(cache, domain[p], parsed.val, now[p])
                    /\ alias' = AliasAfterPut(p, domain[p])
                    /\ ret' = [ret EXCEPT ![p] = parsed.val]
                    /\ pc' = [pc EXCEPT ![p] = "done"]
               ELSE /\ pc' = [pc EXCEPT ![p] = "raised"]
                    /\ UNCHANGED <<cache, ret, alias>>
    /\ UNCHANGED <<clock, started, domain, hit, localOutcome, remoteCalls>>

\* The API answers 404: fetch_whois_api calls resp.text(), and text is a str
\* property of an httpx response, so the call raises TypeError, which no
\* handler of whois_lookup catches
RemoteNotFound(p) ==
    /\ pc[p] = "await_remote"
    /\ LoopFree(p)
    /\ last' = [last EXCEPT ![p] = "not_found"]
    /\ pc' = [pc EXCEPT ![p] = "raised"]
    /\ DropLocals(p)
    /\ UNCHANGED <<cache, clock, started, domain, ret, alias, hit,
                   localOutcome, remoteCalls, localCalls>>

\* The API answers 2xx with a body that is no JSON: resp.json() raises a
\* ValueError, which no handler of whois_lookup catches
RemoteInvalidJson(p) ==
    /\ pc[p] = "await_remote"
    /\ LoopFree(p)
    /\ last' = [last EXCEPT ![p] = "invalid_json"]
    /\ pc' = [pc EXCEPT ![p] = "raised"]
    /\ DropLocals(p)
    /\ UNCHANGED <<cache, clock, started, domain, ret, alias, hit,
                   localOutcome, remoteCalls, localCalls>>

\* The API answers 429: the error record is returned (the close of the
\* client that follows touches nothing but the client)
RemoteRateLimited(p) ==
    /\ pc[p] = "await_remote"
    /\ LoopFree(p)
    /\ last' = [last EXCEPT ![p] = "rate_limited"]
    /\ ret' = [ret EXCEPT ![p] = RateLimitResult(domain[p])]
    /\ pc' = [pc EXCEPT ![p] = "done"]
    /\ DropLocals(p)
    /\ UNCHANGED <<cache, clock, started, domain, alias, hit,
                   localOutcome, remoteCalls, localCalls>>

\* MayRetry that allows one attempt more
MayRetryOnceMore(n) == n <= max_attempts

\* attempt < max_attempts
MayRetry(n) == n < max_attempts

\* RemoteError that does not count an error status as an attempt
RemoteErrorStatusUncounted(p, kind) ==
    /\ pc[p] = "await_remote"
    /\ LoopFree(p)
    /\ last' = [last EXCEPT ![p] = kind]
    /\ IF kind = "http_error" \/ MayRetry(attempt[p] + 1)
       THEN /\ attempt' = [attempt EXCEPT ![p] =
                               IF kind = "http_error" THEN attempt[p] ELSE attempt[p] + 1]
            /\ remoteCalls' = [remoteCalls EXCEPT ![p] = remoteCalls[p] + 1]
            /\ UNCHANGED <<pc, now, localCalls>>
       ELSE /\ EnterLocal(p)
            /\ UNCHANGED remoteCalls
    /\ UNCHANGED <<cache, clock, started, domain, ret, alias, hit, localOutcome>>

\* The attempt fails with another error status, a transport error or a
\* timeout: the attempt is counted, and the loop tries again or gives up
RemoteError(p, kind) ==
    /\ pc[p] = "await_remote"
    /\ LoopFree(p)
    /\ last' = [last EXCEPT ![p] = kind]
    /\ IF MayRetry(attempt[p] + 1)
       THEN /\ attempt' = [attempt EXCEPT ![p] = attempt[p] + 1]
            /\ remoteCalls' = [remoteCalls EXCEPT ![p] = remoteCalls[p] + 1]
            /\ UNCHANGED <<pc, now, localCalls>>
       ELSE /\ EnterLocal(p)
            /\ UNCHANGED remoteCalls
    /\ UNCHANGED <<cache, clock, started, domain, ret, alias, hit, localOutcome>>

\* whois_info() returns: the record is built, cached and returned, or the
\* building raises and the error record is returned.  The cached dict is
\* returned from inside "async with": the client's close is awaited before
\* the response is serialized, and the dict is shared with the cache till then
LocalReturn(p, whois_data) ==
    /\ pc[p] = "local"
    /\ LET built == LocalResult(domain[p], whois_data) IN
       IF built.ok
       THEN /\ cache' = CachePut(cache, domain[p], built.val, now[p])
            /\ alias' = AliasAfterPut(p, domain[p])
            /\ ret' = [ret EXCEPT ![p] = built.val]
            /\ localOutcome' = [localOutcome EXCEPT ![p] = "success"]
            /\ pc' = [pc EXCEPT ![p] = "closing"]
       ELSE /\ ret' = [ret EXCEPT ![p] = LocalErrorResult(domain[p], built.exc)]
            /\ localOutcome' = [localOutcome EXCEPT ![p] = "unusable"]
            /\ pc' = [pc EXCEPT ![p] = "done"]
            /\ UNCHANGED <<cache, alias>>
    /\ DropLocals(p)
    /\ UNCHANGED <<clock, started, domain, hit, last, remoteCalls, localCalls>>

\* whois_info() (or the Grabio constructor) raises
LocalRaise(p, text) ==
    /\ pc[p] = "local"
    /\ ret' = [ret EXCEPT ![p] = LocalErrorResult(domain[p], text)]
    /\ localOutcome' = [localOutcome EXCEPT ![p] = "raised"]
    /\ pc' = [pc EXCEPT ![p] = "done"]
    /\ DropLocals(p)
    /\ UNCHANGED <<cache, clock, started, domain, alias, hit, last,
                   remoteCalls, localCalls>>

\* The client's close ends and the returned dict is serialized
Close(p) ==
    /\ pc[p] = "closing"
    /\ LoopFree(p)
    /\ pc' = [pc EXCEPT ![p] = "done"]
    /\ UNCHANGED <<cache, clock, started, domain, now, attempt, ret, alias, hit,
                   last, localOutcome, remoteCalls, localCalls>>

\* Time passes
Tick ==
    /\ clock < MaxTime
    /\ clock' = clock + 1
    /\ UNCHANGED <<cache, started, pc, domain, now, attempt, ret, alias, hit,
                   last, localOutcome, remoteCalls, localCalls>>

Next ==
    \/ \E p \in Procs, raw \in RawDomains : CacheHit(p, raw)
    \/ \E p \in Procs, raw \in RawDomains : CacheExpired(p, raw)
    \/ \E p \in Procs, raw \in RawDomains : CacheMiss(p, raw)
    \/ \E p \in Procs, resp \in RemoteResponses : RemoteSuccess(p, resp)
    \/ \E p \in Procs : RemoteNotFound(p)
    \/ \E p \in Procs : RemoteInvalidJson(p)
    \/ \E p \in Procs : RemoteRateLimited(p)
    \/ \E p \in Procs, kind \in RetryableErrors : RemoteError(p, kind)
    \/ \E p \in Procs, whois_data \in LocalReturns : LocalReturn(p, whois_data)
    \/ \E p \in Procs, text \in LocalCauses : LocalRaise(p, text)
    \/ \E p \in Procs : Close(p)
    \/ Tick

Spec == Init /\ [][Next]_vars

\* One connection, its requests one after the other, and every shape of
\* answer the resolvers can give
ShapeProcs == {"r1"}

ShapeNext ==
    \/ \E p \in ShapeProcs, raw \in RawDomains : CacheHit(p, raw)
    \/ \E p \in ShapeProcs, raw \in RawDomains : CacheExpired(p, raw)
    \/ \E p \in ShapeProcs, raw \in RawDomains : CacheMiss(p, raw)
    \/ \E p \in ShapeProcs, resp \in ShapeResponses : RemoteSuccess(p, resp)
    \/ \E p \in ShapeProcs : RemoteNotFound(p)
    \/ \E p \in ShapeProcs : RemoteInvalidJson(p)
    \/ \E p \in ShapeProcs : RemoteRateLimited(p)
    \/ \E p \in ShapeProcs, kind \in RetryableErrors : RemoteError(p, kind)
    \/ \E p \in ShapeProcs, whois_data \in ShapeLocalReturns : LocalReturn(p, whois_data)
    \/ \E p \in ShapeProcs, text \in LocalCauses : LocalRaise(p, text)
    \/ \E p \in ShapeProcs : Close(p)
    \/ Tick

ShapeSpec == Init /\ [][ShapeNext]_vars

\* What the answer to the call request p is inside, or the end of its
\* client's close, does to p
Respond(p) ==
    \/ \E resp \in RemoteResponses : RemoteSuccess(p, resp)
    \/ RemoteNotFound(p)
    \/ RemoteInvalidJson(p)
    \/ RemoteRateLimited(p)
    \/ \E kind \in RetryableErrors : RemoteError(p, kind)
    \/ \E whois_data \in LocalReturns : LocalReturn(p, whois_data)
    \/ \E text \in LocalCauses : LocalRaise(p, text)
    \/ Close(p)

\* Every call of a resolver returns or times out (client.get has
\* timeout=10.0), and the event loop resumes every coroutine that can run
FairSpec == Spec /\ \A p \in Procs : WF_vars(Respond(p))

(***************************************************************************)
(* Vocabulary of the properties.                                           *)
(***************************************************************************)
\* A request of p with body raw arrives in this step
Arrives(p, raw) == CacheHit(p, raw) \/ CacheExpired(p, raw) \/ CacheMiss(p, raw)

\* Two records with the same fields and, but for lookup_type, the same values
SameButLookupType(a, b) ==
    /\ DOMAIN a = DOMAIN b
    /\ \A k \in DOMAIN a \ {"lookup_type"} : a[k] = b[k]

CachedSuffix == <<",", " ", "c", "a", "c", "h", "e", "d">>

EndsCached(lt) ==
    /\ Len(lt) >= Len(CachedSuffix)
    /\ SubSeq(lt, Len(lt) - Len(CachedSuffix) + 1, Len(lt)) = CachedSuffix

\* lookup_type with ", cached" at its end, added unless it is there
WithCachedSuffix(lt) == IF EndsCached(lt) THEN lt ELSE lt \o CachedSuffix

\* Request p returns (a record, not from the cache) in this step
Returns(p) ==
    /\ pc[p] \in {"await_remote", "local"}
    /\ pc'[p] \in {"closing", "done"}

C2_HitMakesNoCall ==
    [][\A p \in Procs, raw \in RawDomains :
         (/\ Arrives(p, raw)
          /\ NormalizeDomain(raw) \in DOMAIN cache
          /\ cache[NormalizeDomain(raw)].expiry > clock)
         => /\ pc'[p] = "done"
            /\ ret'[p] # NoResponse
            /\ remoteCalls'[p] = 0
            /\ localCalls'[p] = 0]_vars

\* A request has been served from the cache
C2_Witness ==
    \E p \in Procs :
        /\ pc[p] = "done"
        /\ hit[p]
        /\ domain[p] \in DOMAIN cache
        /\ remoteCalls[p] = 0 /\ localCalls[p] = 0

C4_OnlySuccessCached ==
    [][/\ \A d \in DOMAIN cache' : cache'[d].rec.result = "success"
       /\ \A p \in Procs :
            Returns(p)
            => IF ret'[p].result = "success"
               THEN /\ domain[p] \in DOMAIN cache'
                    /\ cache'[domain[p]].rec = ret'[p]
               ELSE cache' = cache]_vars

\* A request that missed the cache has returned the record it stored
C4_Witness ==
    \E p \in Procs :
        /\ pc[p] = "done"
        /\ ~hit[p]
        /\ ret[p].result = "success"
        /\ domain[p] \in DOMAIN cache
        /\ cache[domain[p]].rec = ret[p]

(***************************************************************************)
(* C5.  Rate limit.                                                        *)
(***************************************************************************)
\* C5: when a remote attempt is answered 429, whichever attempt it is, the
\* request returns at once an "error" record whose message is "Rate limit
\* exceeded", makes no further remote attempt and no local call and leaves
\* the cache as it was; and a request that finds no entry for its domain
\* queries the remote resolver.
C5_RateLimitTerminal ==
    [][/\ \A p \in Procs :
            (pc[p] = "await_remote" /\ last'[p] = "rate_limited")
            => /\ pc'[p] = "done"
               /\ ret'[p].result = "error"
               /\ ret'[p].message = "Rate limit exceeded"
               /\ remoteCalls'[p] = remoteCalls[p]
               /\ localCalls'[p] = 0
               /\ cache' = cache
       /\ \A p \in Procs, raw \in RawDomains :
            (Arrives(p, raw) /\ NormalizeDomain(raw) \notin DOMAIN cache)
            => /\ pc'[p] = "await_remote"
               /\ remoteCalls'[p] = 1]_vars

\* A request was rate limited on its second attempt, its domain has no
\* entry, and another request of the domain is querying the remote resolver
C5_Witness ==
    \E p \in Procs, q \in Procs :
        /\ p # q
        /\ pc[p] = "done" /\ last[p] = "rate_limited"
        /\ remoteCalls[p] = 2 /\ localCalls[p] = 0
        /\ ret[p].result = "error"
        /\ domain[p] \notin DOMAIN cache
        /\ domain[q] = domain[p]
        /\ pc[q] = "await_remote"

(***************************************************************************)
(* C6.  NotFound.                                                          *)
(***************************************************************************)
\* C6: when a remote attempt is answered 404 the request returns a record
\* at once, with no further remote attempt and no local call, and that
\* record is cached under the request's domain with the usual TTL.
C6_NotFoundIsCached ==
    [][\A p \in Procs :
         (pc[p] = "await_remote" /\ last'[p] = "not_found")
         => /\ pc'[p] = "done"
            /\ ret'[p] # NoResponse
            /\ remoteCalls'[p] = remoteCalls[p]
            /\ localCalls'[p] = 0
            /\ domain[p] \in DOMAIN cache'
            /\ cache'[domain[p]] = [rec |-> ret'[p], expiry |-> now[p] + CACHE_TTL]]_vars

C8_FullFallback ==
    [][\A p \in Procs :
         /\ (\E kind \in RetryableErrors : RemoteError(p, kind))
            => IF remoteCalls[p] < max_attempts
               THEN /\ pc'[p] = "await_remote"
                    /\ remoteCalls'[p] = remoteCalls[p] + 1
                    /\ localCalls'[p] = 0
               ELSE /\ pc'[p] = "local"
                    /\ remoteCalls'[p] = max_attempts
                    /\ localCalls'[p] = 1
         /\ localCalls'[p] <= 1
         /\ pc'[p] = "await_remote" => localCalls'[p] = 0
         /\ pc[p] = "local" => remoteCalls'[p] = remoteCalls[p]
         /\ (pc[p] = "local" /\ localOutcome'[p] = "success")
            => /\ pc'[p] = "closing"
               /\ ret'[p].lookup_type = LOCAL_TYPE
               /\ domain[p] \in DOMAIN cache'
               /\ cache'[domain[p]] = [rec |-> ret'[p], expiry |-> now[p] + CACHE_TTL]
         /\ (pc'[p] \in {"closing", "done"} /\ localOutcome'[p] = "success")
            => /\ ret'[p].result = "success"
               /\ SubSeq(ret'[p].lookup_type, 1, Len(LOCAL_TYPE)) = LOCAL_TYPE]_vars

\* A request made three failed remote attempts, then one local call that
\* succeeded, and returned the record it stored
C8_Witness ==
    \E p \in Procs :
        /\ pc[p] = "done"
        /\ last[p] \in RetryableErrors
        /\ remoteCalls[p] = 3
        /\ localCalls[p] = 1
        /\ localOutcome[p] = "success"
        /\ ret[p].result = "success"
        /\ ret[p].lookup_type = LOCAL_TYPE
        /\ domain[p] \in DOMAIN cache
        /\ cache[domain[p]].rec = ret[p]

(***************************************************************************)
(* C9.  Local failure.                                                     *)
(***************************************************************************)
\* C9: when the local call raises or returns something unusable, the
\* request returns an "error" record of lookup_type "local" with a message,
\* and the cache is exactly what it was before.
C9_LocalFailureUncached ==
    [][\A p \in Procs :
         (pc[p] = "local" /\ localOutcome'[p] \in {"unusable", "raised"})
         => /\ pc'[p] = "done"
            /\ ret'[p].result = "error"
            /\ ret'[p].lookup_type = LOCAL_TYPE
            /\ "message" \in DOMAIN ret'[p]
            /\ ret'[p].message # ""
            /\ cache' = cache]_vars

\* The local call of a request failed while the cache held an entry for its
\* domain, written by another request, and the entry is still there
C9_Witness ==
    \E p \in Procs :
        /\ pc[p] = "done"
        /\ localOutcome[p] \in {"unusable", "raised"}
        /\ ret[p].result = "error"
        /\ domain[p] \in DOMAIN cache

(***************************************************************************)
(* C10.  No fault escapes.                                                 *)
(***************************************************************************)
\* C10: no request ends with an exception: whatever the remote and the
\* local resolver answer, the request returns a record.
C10_NoFaultEscapes == \A p \in Procs : pc[p] # "raised"

(***************************************************************************)
(* C11.  Termination.                                                      *)
(***************************************************************************)
\* C11: whatever the resolvers answer, a request that has begun to query
\* them ends by returning a record.
C11_ReturnsARecord ==
    \A p \in Procs :
        (pc[p] \in {"await_remote", "local", "closing"}) ~> (pc[p] = "done")

\* C11, the part of it that holds: a request that has begun to query the
\* resolvers ends, by returning a record or with an exception, and has by
\* then made at most max_attempts remote calls and one local call.
C11_Ends ==
    \A p \in Procs :
        (pc[p] \in {"await_remote", "local", "closing"})
            ~> (/\ pc[p] \in {"done", "raised"}
                /\ remoteCalls[p] <= max_attempts
                /\ localCalls[p] <= 1)

(***************************************************************************)
(* C12.  The local resolver is called only after the retries.              *)
(***************************************************************************)
\* C12: a request that has called the local resolver has made max_attempts
\* remote attempts before, and the last of them failed with an error the
\* loop retries: it did not return a payload, empty or not.
C12_LocalOnlyAfterExhaustion ==
    \A p \in Procs :
        localCalls[p] >= 1
        => /\ remoteCalls[p] = max_attempts
           /\ last[p] \in RetryableErrors

(***************************************************************************)
(* C13.  Payloads that say "not registered".                               *)
(***************************************************************************)
\* C13: when a remote attempt returns a payload whose "result" section is
\* empty or whose "registered" is false, the request returns a record, and
\* the record does not say "success".
C13_NotRegisteredOutcome ==
    [][\A p \in Procs :
         (pc[p] = "await_remote" /\ last'[p] = "success_unregistered")
         => /\ pc'[p] = "done"
            /\ ret'[p].result # "success"]_vars

(***************************************************************************)
(* C14.  Resolver calls do not hold the event loop.                        *)
(***************************************************************************)
\* C14: while a request is inside a remote call or inside the local call, a
\* request of another domain that awaits its own remote answer can take its
\* next step.
C14_NonBlocking ==
    \A p \in Procs, q \in Procs :
        ( /\ p # q
          /\ pc[p] \in {"await_remote", "local"}
          /\ pc[q] = "await_remote"
          /\ domain[q] # domain[p] )
        => ENABLED Respond(q)

\* C14, the part of it that holds: a remote call does not hold the loop
C14_RemoteNonBlocking ==
    \A p \in Procs, q \in Procs :
        ( /\ p # q
          /\ pc[p] = "await_remote"
          /\ pc[q] = "await_remote"
          /\ domain[q] # domain[p] )
        => ENABLED Respond(q)

(***************************************************************************)
(* C15.  No in-flight deduplication; the last writer wins.                 *)
(***************************************************************************)
\* The fields of a success record
SuccessFields ==
    {"domain", "creation_date", "registrar", "status", "name_servers",
     "expiration_date", "result", "lookup_type", "remaining_api_calls"}

\* C15: a request that finds no live entry for its domain queries the
\* remote resolver even when another request is querying it for the same
\* domain; a request that stores a record while the cache holds an entry
\* for its domain replaces record and expiry together by its own; and every
\* entry is one pair of a complete success record and an expiry.
C15_LastWriterWins ==
    [][/\ \A p \in Procs, raw \in RawDomains :
            ( /\ Arrives(p, raw)
              /\ ~hit'[p]
              /\ \E q \in Procs \ {p} :
                    pc[q] = "await_remote" /\ domain[q] = NormalizeDomain(raw) )
            => /\ pc'[p] = "await_remote"
               /\ remoteCalls'[p] = 1
       /\ \A p \in Procs :
            ( /\ Returns(p)
              /\ ret'[p].result = "success"
              /\ domain[p] \in DOMAIN cache )
            => cache'[domain[p]] = [rec |-> ret'[p], expiry |-> now[p] + CACHE_TTL]
       /\ \A d \in DOMAIN cache' :
            /\ DOMAIN cache'[d] = {"rec", "expiry"}
            /\ DOMAIN cache'[d].rec = SuccessFields
            /\ cache'[d].expiry \in 1..(MaxTime + CACHE_TTL)]_vars

\* Two requests of one domain overlapped, both missed the cache, both
\* stored a record, and the cache holds that of the later writer only
C15_Witness ==
    \E p \in Procs, q \in Procs :
        /\ p # q
        /\ clock = 0
        /\ domain[p] = domain[q]
        /\ pc[p] = "done" /\ pc[q] = "done"
        /\ ~hit[p] /\ ~hit[q]
        /\ remoteCalls[p] >= 1 /\ remoteCalls[q] >= 1
        /\ ret[p].result = "success" /\ ret[q].result = "success"
        /\ ret[p] # ret[q]
        /\ domain[p] \in DOMAIN cache
        /\ cache[domain[p]].rec = ret[q]

(***************************************************************************)
(* C16.  Flattening of status and name_servers.                            *)
(***************************************************************************)
\* The field k of the "result" section of a remote payload
SourceField(json_data, k) ==
    DictGet(DictGetDefault(json_data.v, "result", PyDict(<<>>)).v, k)

\* What C16 asks of status: a list joined with ", ", a str itself, the
\* sentinel for anything else
ExpectedStatus(x) ==
    IF x.t = "list" THEN PyStr(JoinSeq(COMMA_SPACE, x.v))
    ELSE IF x.t = "str" THEN x
    ELSE PyStr(NO_INFORMATION)

\* What C16 asks of name_servers: a list joined (with the separator of the
\* code, "\n"), a str itself, the sentinel for anything else, and every
\* entry lower-cased
ExpectedNameServers(x) ==
    IF x.t = "list"
    THEN PyStr(JoinSeq(NEWLINE, [i \in 1..Len(x.v) |-> PyStr(Lower(x.v[i].v))]))
    ELSE IF x.t = "str" THEN PyStr(Lower(x.v))
    ELSE PyStr(NO_INFORMATION)

\* C16: the status and the name_servers of every success record, built from
\* a remote payload or from what the local resolver returned, are the
\* flattened forms of the source's fields: joined when a list, the string
\* when a string, "No information" when absent, null or of another type,
\* and name servers in lower case.
C16_Flattened ==
    [][\A p \in Procs :
         /\ \A resp \in ShapeResponses :
              (RemoteSuccess(p, resp) /\ pc'[p] = "done")
              => /\ ret'[p].status =
                       ExpectedStatus(SourceField(resp.json_data, "status"))
                 /\ ret'[p].name_servers =
                       ExpectedNameServers(SourceField(resp.json_data, "name_servers"))
         /\ \A whois_data \in ShapeLocalReturns :
              (LocalReturn(p, whois_data) /\ localOutcome'[p] = "success")
              => /\ ret'[p].status =
                       ExpectedStatus(DictGet(whois_data.v, "status"))
                 /\ ret'[p].name_servers =
                       ExpectedNameServers(DictGet(whois_data.v, "name_servers"))]_vars

\* The values the code flattens as C16 says: a list, a str, null or absent
Recognized(x) == x.t \in {"list", "str", "none"}

\* C16, the part of it that holds: status is flattened as asked when the
\* source gave a list, a str, null or nothing, and name_servers when it
\* gave a list, null or nothing.
C16_FlattenedWhenRecognized ==
    [][\A p \in Procs :
         /\ \A resp \in ShapeResponses :
              (RemoteSuccess(p, resp) /\ pc'[p] = "done")
              => LET status       == SourceField(resp.json_data, "status")
                     name_servers == SourceField(resp.json_data, "name_servers")
                 IN  /\ Recognized(status)
                        => ret'[p].status = ExpectedStatus(status)
                     /\ (Recognized(name_servers) /\ name_servers.t # "str")
                        => ret'[p].name_servers = ExpectedNameServers(name_servers)
         /\ \A whois_data \in ShapeLocalReturns :
              (LocalReturn(p, whois_data) /\ localOutcome'[p] = "success")
              => LET status       == DictGet(whois_data.v, "status")
                     name_servers == DictGet(whois_data.v, "name_servers")
                 IN  /\ Recognized(status)
                        => ret'[p].status = ExpectedStatus(status)
                     /\ (Recognized(name_servers) /\ name_servers.t # "str")
                        => ret'[p].name_servers = ExpectedNameServers(name_servers)]_vars

(***************************************************************************)
(* C17.  One retry budget for every kind of failure.                       *)
(***************************************************************************)
\* The answers to a remote attempt after which the loop does not go on: a
\* payload, a body that is no JSON, a 404, a 429
FinalAnswers ==
    {"success", "success_unregistered", "success_empty", "success_other",
     "invalid_json", "not_found", "rate_limited"}

\* C17: a request makes at most max_attempts remote attempts and at most
\* one local call; while it awaits a remote answer it has made one attempt
\* more than have failed, whatever the kinds of the failures; it makes a
\* further attempt only after a failure the loop retries, and none after a
\* payload, a 404 or a 429.
C17_SharedRetryBudget ==
    [][\A p \in Procs :
         /\ remoteCalls'[p] <= max_attempts
         /\ localCalls'[p] <= 1
         /\ pc'[p] = "await_remote" => remoteCalls'[p] = attempt'[p] + 1
         /\ (pc[p] = "await_remote" /\ remoteCalls'[p] # remoteCalls[p])
            => /\ last'[p] \in RetryableErrors
               /\ remoteCalls'[p] = remoteCalls[p] + 1
               /\ attempt'[p] = attempt[p] + 1
         /\ (pc[p] = "await_remote" /\ last'[p] \in FinalAnswers)
            => /\ pc'[p] # "await_remote"
               /\ remoteCalls'[p] = remoteCalls[p]]_vars

\* A request has entered the local call after three failed attempts, the
\* last an error status, while another awaits its second attempt after a
\* transport error
C17_Witness ==
    \E p \in Procs, q \in Procs :
        /\ pc[p] = "local"
        /\ remoteCalls[p] = max_attempts
        /\ localCalls[p] = 1
        /\ last[p] = "http_error"
        /\ pc[q] = "await_remote"
        /\ remoteCalls[q] = 2
        /\ last[q] = "request_error"

(***************************************************************************)
(* C18.  Per-key frame.                                                    *)
(***************************************************************************)
\* Request p takes the step
Acts(p) == pc'[p] # pc[p] \/ \E raw \in RawDomains : Arrives(p, raw)

\* The keys whose entry the step adds, changes or removes
ChangedKeys ==
    {k \in DOMAIN cache \cup DOMAIN cache' :
        \/ k \notin DOMAIN cache
        \/ k \notin DOMAIN cache'
        \/ cache'[k] # cache[k]}

\* C18: a step changes the cache at most at one key, the domain of the
\* request that takes it; and an entry is removed only by a request of its
\* key that arrives when the clock has reached the entry's expiry.
C18_PerKeyFrame ==
    [][/\ \A k \in ChangedKeys : \E p \in Procs : Acts(p) /\ domain'[p] = k
       /\ Cardinality(ChangedKeys) <= 1
       /\ \A k \in DOMAIN cache \ DOMAIN cache' :
            /\ clock >= cache[k].expiry
            /\ \E p \in Procs, raw \in RawDomains :
                  CacheExpired(p, raw) /\ NormalizeDomain(raw) = k]_vars

\* The entry of one domain, stored by a request that has returned it, has
\* been removed by a later request of that domain, and the entry of
\* another domain is still there
C18_Witness ==
    \E p \in Procs, q \in Procs :
        /\ p # q
        /\ pc[q] = "done" /\ ~hit[q] /\ ret[q].result = "success"
        /\ domain[p] = domain[q]
        /\ pc[p] = "await_remote"
        /\ domain[p] \notin DOMAIN cache
        /\ \E k \in DOMAIN cache : k # domain[p]

(***************************************************************************)
(* C19.  The cache key.                                                    *)
(***************************************************************************)
\* raw without the whitespace around it
Core(raw) ==
    LET inked == {i \in 1..Len(raw) : raw[i] \notin Whitespace}
    IN  IF inked = {} THEN <<>>
        ELSE SubSeq(raw, CHOOSE i \in inked : \A j \in inked : i <= j,
                         CHOOSE i \in inked : \A j \in inked : i >= j)

\* Two request bodies that differ in case and surrounding whitespace only
SameSpelling(raw1, raw2) ==
    LET a == Core(raw1)
        b == Core(raw2)
    IN  /\ Len(a) = Len(b)
        /\ \A i \in 1..Len(a) :
              \/ a[i] = b[i]
              \/ LowerChar(a[i]) = b[i]
              \/ a[i] = LowerChar(b[i])

\* C19: every key of the cache is the body of a request with the
\* surrounding whitespace removed and in lower case, and is the domain of
\* the record stored under it; a request takes as its key the key of every
\* body that differs from its own in case and surrounding whitespace only,
\* so that it is served from the live entry such a body stored.
C19_CacheKey ==
    [][/\ \A k \in DOMAIN cache' :
            /\ \E raw \in RawDomains : SameSpelling(raw, k)
            /\ Core(k) = k
            /\ \A i \in 1..Len(k), j \in 1..Len(UpperChars) : k[i] # UpperChars[j]
            /\ cache'[k].rec.domain = k
       /\ started' # started
          => \A p \in Procs, raw1 \in RawDomains :
               Arrives(p, raw1)
               => \A raw2 \in {r \in RawDomains : SameSpelling(raw1, r)} :
                    LET key == NormalizeDomain(raw2) IN
                    /\ domain'[p] = key
                    /\ (key \in DOMAIN cache /\ cache[key].expiry > clock)
                       => /\ hit'[p]
                          /\ ret'[p].domain = key
                          /\ SameButLookupType(ret'[p], cache[key].rec)]_vars

\* A request has been served from the one entry that another request of
\* the domain stored
C19_Witness ==
    \E p \in Procs, q \in Procs :
        /\ p # q
        /\ pc[p] = "done" /\ hit[p]
        /\ pc[q] = "done" /\ ~hit[q] /\ ret[q].result = "success"
        /\ domain[p] = <<"e", "x">>
        /\ domain[q] = <<"e", "x">>
        /\ DOMAIN cache = {<<"e", "x">>}
        /\ cache[<<"e", "x">>].rec.domain = <<"e", "x">>
        /\ ret[p].domain = <<"e", "x">>

(***************************************************************************)
(* C20.  The expiry is anchored at the start of the lookup.                *)
(***************************************************************************)
\* C20: a request reads the clock once, when it arrives and before it
\* looks into the cache; the entry it stores, however much later, expires
\* CACHE_TTL after that reading; so no entry expires later than CACHE_TTL
\* after it was stored.
C20_ExpiryAnchoredAtStart ==
    [][/\ \A p \in Procs :
            /\ (\E raw \in RawDomains : CacheMiss(p, raw) \/ CacheExpired(p, raw))
               => now'[p] = clock
            /\ (pc[p] \in {"await_remote", "local"} /\ pc'[p] \in {"await_remote", "local"})
               => now'[p] = now[p]
            /\ (Returns(p) /\ ret'[p].result = "success")
               => /\ cache'[domain[p]].expiry = now[p] + CACHE_TTL
                  /\ now[p] <= clock
       /\ \A k \in DOMAIN cache' : cache'[k].expiry <= clock' + CACHE_TTL]_vars

\* An entry was stored by a request that began one TTL before a request of
\* the same domain that arrived earlier than the entry was stored: the
\* entry had expired by the time it was stored
C20_Witness ==
    \E p \in Procs, q \in Procs :
        /\ p # q
        /\ pc[p] = "done" /\ ~hit[p] /\ ret[p].result = "success"
        /\ domain[p] \in DOMAIN cache
        /\ cache[domain[p]].rec = ret[p]
        /\ pc[q] = "await_remote"
        /\ domain[q] = domain[p]
        /\ now[q] >= cache[domain[p]].expiry

====
